---- MODULE Spec2Model ----
(***************************************************************************)
(* Expiring in-process cache (caching.go) with its optional AES-GCM        *)
(* obfuscation layer (obfuscator.go).                                      *)
(*                                                                         *)
(* Time is a discrete clock `now`; durations are integers in the same      *)
(* unit.  A Go value handed to the cache is a record [kind, n, b]: an int  *)
(* (kind "int"), a channel (kind "chan", which encoding/json refuses) or a *)
(* byte slice (kind "bytes").  The map holds pointers to entries, so an    *)
(* assignment through the pointer is an assignment to the stored entry.    *)
(***************************************************************************)
EXTENDS Integers, Sequences, FiniteSets, TLC

\* ---------------------------------------------------------------- bounds
MaxTime == 2
MaxDuration == 1
MaxReaders == 2

\* ------------------------------------------------------ program constants
defaultExpiry == -1
NonceSize == 12
TagSize == 16

\* ------------------------------------------------------------ input sets
CacheKeys == {"k1", "k2"}
OneKey == {"k1"}
ObfuscatorKeys == {5}
Durations == {defaultExpiry - 1} \cup (defaultExpiry..MaxDuration)
Overrides == 0..MaxDuration
Intervals == {1}
Nonces == {0, 1}

IntValue(n) == [kind |-> "int", n |-> n, b |-> <<>>]
ChanValue == [kind |-> "chan", n |-> 0, b |-> <<>>]
BytesValue(b) == [kind |-> "bytes", n |-> 0, b |-> b]
NoValue == [kind |-> "none", n |-> 0, b |-> <<>>]
Values == {IntValue(7), IntValue(42), ChanValue}

\* ----------------------------------------------- serialization boundary
RECURSIVE Digits(_)
Digits(n) == IF n < 10 THEN <<48 + n>> ELSE Digits(n \div 10) \o <<48 + (n % 10)>>

\* json.Marshal(&value.value)
Marshal(v) ==
    IF v.kind = "int"
    THEN [err |-> "", b |-> Digits(v.n)]
    ELSE [err |-> "json: unsupported type", b |-> <<>>]

RECURSIVE ParseDigits(_, _)
ParseDigits(b, acc) ==
    IF b = <<>> THEN acc ELSE ParseDigits(Tail(b), acc * 10 + (Head(b) - 48))

\* json.Unmarshal(bytes, &target) for an int target
Unmarshal(b) ==
    IF b # <<>> /\ \A i \in 1..Len(b) : b[i] \in 48..57
    THEN [err |-> "", v |-> IntValue(ParseDigits(b, 0))]
    ELSE [err |-> "json: invalid", v |-> NoValue]

\* ------------------------------------------------------------ obfuscator
RECURSIVE SumBytes(_, _)
SumBytes(b, i) == IF i = 0 THEN 0 ELSE (b[i] + SumBytes(b, i - 1)) % 256

NonceBytes(nv) == [i \in 1..NonceSize |-> nv]

\* the authentication tag GCM computes over nonce and ciphertext under the key
GcmTag(key, nonce, ct) ==
    LET sum == (key + SumBytes(nonce, Len(nonce)) + SumBytes(ct, Len(ct))) % 256
    IN  [i \in 1..TagSize |-> (sum + i) % 256]

\* the keystream byte GCM adds to plaintext byte i
GcmStream(key, nonce, i) == (key + nonce[1] + i) % 256

\* gcm.Seal(nonce, nonce, plaintext, nil): nonce | ciphertext | tag
GcmSeal(key, nonce, plaintext) ==
    LET ct == [i \in 1..Len(plaintext) |-> (plaintext[i] + GcmStream(key, nonce, i)) % 256]
    IN  nonce \o ct \o GcmTag(key, nonce, ct)

\* gcm.Open(nil, nonce, sealed, nil)
GcmOpen(key, nonce, sealed) ==
    IF Len(sealed) < TagSize
    THEN [err |-> "cipher: message authentication failed", b |-> <<>>]
    ELSE LET ct  == SubSeq(sealed, 1, Len(sealed) - TagSize)
             tag == SubSeq(sealed, Len(sealed) - TagSize + 1, Len(sealed))
         IN  IF tag # GcmTag(key, nonce, ct)
             THEN [err |-> "cipher: message authentication failed", b |-> <<>>]
             ELSE [err |-> "",
                   b |-> [i \in 1..Len(ct) |-> (ct[i] + 256 - GcmStream(key, nonce, i)) % 256]]

\* Obfuscator.Obfuscate; randOk = FALSE is rand.Read failing on the nonce
Obfuscate(obf, plaintext, nv, randOk) ==
    IF ~randOk
    THEN [err |-> "rand: read failed", b |-> <<>>]
    ELSE [err |-> "", b |-> GcmSeal(obf[1], NonceBytes(nv), plaintext)]

\* a Deobfuscate that hands short input back as if it had opened
Deobfuscate_ShortPasses(obf, ciphertext) ==
    IF Len(ciphertext) < NonceSize
    THEN [err |-> "", b |-> ciphertext]
    ELSE GcmOpen(obf[1], SubSeq(ciphertext, 1, NonceSize),
                 SubSeq(ciphertext, NonceSize + 1, Len(ciphertext)))

\* Obfuscator.Deobfuscate
Deobfuscate(obf, ciphertext) ==
    IF Len(ciphertext) < NonceSize
    THEN [err |-> "malformed ciphertext", b |-> <<>>]
    ELSE GcmOpen(obf[1], SubSeq(ciphertext, 1, NonceSize),
                 SubSeq(ciphertext, NonceSize + 1, Len(ciphertext)))

\* ----------------------------------------------------------------- state
VARIABLES
    cacheMap,       \* Cache.cacheMap: function from the stored keys to entries
    expiry,         \* Cache.expiry
    cleanInterval,  \* Cache.cleanInterval
    obfuscator,     \* Cache.obfuscator: <<>> is nil, <<key>> an Obfuscator
    now,            \* the clock read by time.Now / time.Since
    sweepSleep,     \* clean goroutine: what is left of its time.Sleep
    crashed,        \* TRUE once a goroutine has panicked
    ret,            \* the last operation: its key, its Expiry and CleanInterval
                    \* parameters, what it returned
    shadow,         \* per stored key: the value last written, whether that write
                    \* succeeded, and the insertionTime and expiry its Add stored
    lock,           \* Cache.lock: whether a writer holds it, and how many readers
    threads         \* the caller goroutines, named after the keys: the position
                    \* of each inside the call it is running

vars == <<cacheMap, expiry, cleanInterval, obfuscator, now, sweepSleep,
          crashed, ret, shadow, lock, threads>>

\* the receiver *Cache as the methods see it
Cache == [cacheMap |-> cacheMap, expiry |-> expiry,
          cleanInterval |-> cleanInterval, obfuscator |-> obfuscator]

\* ----------------------------------------------------------- entry store
Load(m, key) == key \in DOMAIN m
\* Store with the semantics of LoadOrStore
Store_KeepExisting(m, key, entry) ==
    IF key \in DOMAIN m THEN m ELSE [x \in DOMAIN m \cup {key} |-> IF x = key THEN entry ELSE m[x]]
Store(m, key, entry) == [x \in DOMAIN m \cup {key} |-> IF x = key THEN entry ELSE m[x]]
Delete(m, key) == [x \in DOMAIN m \ {key} |-> m[x]]

\* Remove that empties the map
RemoveOp_Clear(c, key) == << >>

\* Cache.Remove
RemoveOp(c, key) == Delete(c.cacheMap, key)

\* ---------------------------------------------------------- cache engine
\* NewCache: the cache-wide expiry chosen at construction
NewCacheExpiry(paramsExpiry) == IF paramsExpiry > 0 THEN paramsExpiry ELSE defaultExpiry

\* Add that ignores the per-call override
ResolveExpiry_Default(c, paramsExpiry) == c.expiry

\* Add that falls back to the construction-time sentinel, not the current default
ResolveExpiry_Sentinel(c, paramsExpiry) ==
    IF paramsExpiry > 0 THEN paramsExpiry ELSE defaultExpiry

\* Add: the expiry stored in the new entry
ResolveExpiry(c, paramsExpiry) == IF paramsExpiry > 0 THEN paramsExpiry ELSE c.expiry

\* Add: the entry handed to addInCache
NewEntry(c, value, paramsExpiry, t) ==
    [value |-> value, expiry |-> ResolveExpiry(c, paramsExpiry), insertionTime |-> t]

\* addInCache that stores the entry before it encodes the value
addInCache_StoreFirst(c, m, key, entry, nv, randOk) ==
    LET j == Marshal(entry.value)
        o == IF c.obfuscator # <<>> /\ j.err = ""
             THEN Obfuscate(c.obfuscator, j.b, nv, randOk)
             ELSE j
    IN  IF j.err # "" THEN [err |-> j.err, cacheMap |-> Store(m, key, entry)]
        ELSE IF o.err # "" THEN [err |-> o.err, cacheMap |-> Store(m, key, entry)]
        ELSE [err |-> "",
              cacheMap |-> Store(m, key, [entry EXCEPT !.value = BytesValue(o.b)])]

\* addInCache, called with the map m current at the call
addInCache(c, m, key, entry, nv, randOk) ==
    LET j == Marshal(entry.value)
        o == IF c.obfuscator # <<>> /\ j.err = ""
             THEN Obfuscate(c.obfuscator, j.b, nv, randOk)
             ELSE j
    IN  IF j.err # "" THEN [err |-> j.err, cacheMap |-> m]
        ELSE IF o.err # "" THEN [err |-> o.err, cacheMap |-> m]
        ELSE [err |-> "",
              cacheMap |-> Store(m, key, [entry EXCEPT !.value = BytesValue(o.b)])]

\* Cache.Add
AddOp(c, key, value, paramsExpiry, t, nv, randOk) ==
    addInCache(c, c.cacheMap, key, NewEntry(c, value, paramsExpiry, t), nv, randOk)

\* Update that stores a new entry when the key is absent
UpdateOp_Upsert(c, key, value, nv, randOk) ==
    LET entry == IF Load(c.cacheMap, key)
                 THEN [c.cacheMap[key] EXCEPT !.value = value]
                 ELSE [value |-> value, expiry |-> c.expiry, insertionTime |-> 0]
    IN  addInCache(c, Store(c.cacheMap, key, entry), key, entry, nv, randOk)

\* Update that resolves the expiry again from the cache-wide one
UpdateOp_NewWindow(c, key, value, nv, randOk) ==
    IF ~Load(c.cacheMap, key)
    THEN [err |-> "value doesn't exist in cache", cacheMap |-> c.cacheMap]
    ELSE LET entry == [c.cacheMap[key] EXCEPT !.value = value, !.expiry = c.expiry]
         IN  addInCache(c, Store(c.cacheMap, key, entry), key, entry, nv, randOk)

\* Cache.Update: entry.value = params.Value writes through the stored pointer
UpdateOp(c, key, value, nv, randOk) ==
    IF ~Load(c.cacheMap, key)
    THEN [err |-> "value doesn't exist in cache", cacheMap |-> c.cacheMap]
    ELSE LET entry == [c.cacheMap[key] EXCEPT !.value = value]
         IN  addInCache(c, Store(c.cacheMap, key, entry), key, entry, nv, randOk)

\* liveness with a strict comparison
IsLive_Strict(c, entry, t) ==
    entry.expiry <= defaultExpiry \/ t - entry.insertionTime < entry.expiry

\* liveness read from the cache-wide expiry at the time of the Get
IsLive_CacheExpiry(c, entry, t) ==
    c.expiry <= defaultExpiry \/ t - entry.insertionTime <= c.expiry

\* Get: the liveness condition
IsLive(c, entry, t) ==
    entry.expiry <= defaultExpiry \/ t - entry.insertionTime <= entry.expiry

NilResponse == <<>>
Response(value, insertionTime) == <<[Value |-> value, InsertionTime |-> insertionTime]>>

\* a miss that returns an empty response instead of nil
GetAbsent_Empty(c) ==
    [resp |-> <<[Value |-> <<>>, InsertionTime |-> 0]>>, found |-> FALSE,
     cacheMap |-> c.cacheMap, panic |-> FALSE]

\* Get on a key that Load did not find
GetAbsent(c) == [resp |-> NilResponse, found |-> FALSE, cacheMap |-> c.cacheMap, panic |-> FALSE]

\* a hit that returns the stored bytes as they are
GetLive_NoDeobfuscate(c, key, entry) ==
    IF entry.value.kind # "bytes"
    THEN [resp |-> NilResponse, found |-> FALSE, cacheMap |-> c.cacheMap, panic |-> TRUE]
    ELSE [resp |-> Response(entry.value.b, entry.insertionTime), found |-> TRUE,
          cacheMap |-> c.cacheMap, panic |-> FALSE]

\* a hit that hands back the stored bytes when they do not open
GetLive_FailOpen(c, key, entry) ==
    IF entry.value.kind # "bytes"
    THEN [resp |-> NilResponse, found |-> FALSE, cacheMap |-> c.cacheMap, panic |-> TRUE]
    ELSE IF c.obfuscator = <<>>
    THEN [resp |-> Response(entry.value.b, entry.insertionTime), found |-> TRUE,
          cacheMap |-> c.cacheMap, panic |-> FALSE]
    ELSE LET d == Deobfuscate(c.obfuscator, entry.value.b)
         IN  [resp |-> Response(IF d.err # "" THEN entry.value.b ELSE d.b, entry.insertionTime),
              found |-> TRUE, cacheMap |-> c.cacheMap, panic |-> FALSE]

\* Get on a live entry: type assertion, deobfuscation, response
GetLive(c, key, entry) ==
    IF entry.value.kind # "bytes"
    THEN [resp |-> NilResponse, found |-> FALSE, cacheMap |-> c.cacheMap, panic |-> TRUE]
    ELSE IF c.obfuscator = <<>>
    THEN [resp |-> Response(entry.value.b, entry.insertionTime), found |-> TRUE,
          cacheMap |-> c.cacheMap, panic |-> FALSE]
    ELSE LET d == Deobfuscate(c.obfuscator, entry.value.b)
         IN  IF d.err # ""
             THEN [resp |-> NilResponse, found |-> FALSE,
                   cacheMap |-> RemoveOp(c, key), panic |-> FALSE]
             ELSE [resp |-> Response(d.b, entry.insertionTime), found |-> TRUE,
                   cacheMap |-> c.cacheMap, panic |-> FALSE]

\* Get on an entry that is no longer live
GetExpired(c, key) ==
    [resp |-> NilResponse, found |-> FALSE, cacheMap |-> RemoveOp(c, key), panic |-> FALSE]

\* a Get whose hit restarts the entry's lifetime
GetOp_Sliding(c, key, t) ==
    IF ~Load(c.cacheMap, key) THEN GetAbsent(c)
    ELSE IF IsLive(c, c.cacheMap[key], t)
    THEN LET g == GetLive(c, key, c.cacheMap[key])
         IN  IF g.found
             THEN [g EXCEPT !.cacheMap =
                      Store(c.cacheMap, key, [c.cacheMap[key] EXCEPT !.insertionTime = t])]
             ELSE g
    ELSE GetExpired(c, key)

\* Cache.Get
GetOp(c, key, t) ==
    IF ~Load(c.cacheMap, key) THEN GetAbsent(c)
    ELSE IF IsLive(c, c.cacheMap[key], t) THEN GetLive(c, key, c.cacheMap[key])
    ELSE GetExpired(c, key)

\* GetAllCacheInfo: what it returns, a nil map or the map entries
NilMap == [isNil |-> TRUE, entries |-> << >>]
MapOf(entries) == [isNil |-> FALSE, entries |-> entries]

\* GetAllCacheInfo: the Range callback applied to the keys in the order Range
\* yields them; get(key) puts a live entry's payload into res and removes an
\* expired entry from the map m
RECURSIVE RangeGet(_, _, _, _, _)
RangeGet(c, m, res, order, t) ==
    IF order = << >> THEN [res |-> res, cacheMap |-> m, panic |-> FALSE]
    ELSE LET key == Head(order)
             g == GetOp([c EXCEPT !.cacheMap = m], key, t)
         IN  IF g.panic THEN [res |-> res, cacheMap |-> g.cacheMap, panic |-> TRUE]
             ELSE RangeGet(c, g.cacheMap,
                           IF g.found THEN Store(res, key, g.resp[1].Value) ELSE res,
                           Tail(order), t)

\* Cache.GetAllCacheInfo
GetAllOp(c, order, t) ==
    LET r == RangeGet(c, c.cacheMap, << >>, order, t)
    IN  [result |-> IF Cardinality(DOMAIN r.res) > 0 THEN MapOf(r.res) ELSE NilMap,
         cacheMap |-> r.cacheMap, panic |-> r.panic]

\* the Go types a caller hands to the typed Get as its target
Targets == {"int", "string"}

\* json.Unmarshal(bytes, target): a JSON number decodes into an int target and
\* not into a string target
UnmarshalInto(b, target) ==
    LET u == Unmarshal(b)
    IN  IF u.err # "" THEN u
        ELSE IF target = "int" THEN u
        ELSE [err |-> "json: cannot unmarshal number into Go value of type string",
              v |-> NoValue]

\* a typed Get that treats a payload it cannot decode like one it cannot open
GetTypedOp_EvictUndecodable(c, key, target, t) ==
    LET g == GetOp(c, key, t)
        u == UnmarshalInto(g.resp[1].Value, target)
    IN  IF g.panic \/ ~g.found
        THEN [err |-> IF g.panic THEN "panic" ELSE "key not found in the cache",
              v |-> NoValue, cacheMap |-> g.cacheMap, panic |-> g.panic]
        ELSE IF u.err # ""
        THEN [err |-> "key not found in the cache", v |-> NoValue,
              cacheMap |-> RemoveOp(c, key), panic |-> FALSE]
        ELSE [err |-> "", v |-> u.v, cacheMap |-> g.cacheMap, panic |-> FALSE]

\* Cache.Get(key, value), the form that decodes into the caller's target
GetTypedOp(c, key, target, t) ==
    LET g == GetOp(c, key, t)
        u == UnmarshalInto(g.resp[1].Value, target)
    IN  IF g.panic \/ ~g.found
        THEN [err |-> IF g.panic THEN "panic" ELSE "key not found in the cache",
              v |-> NoValue, cacheMap |-> g.cacheMap, panic |-> g.panic]
        ELSE [err |-> u.err, v |-> u.v, cacheMap |-> g.cacheMap, panic |-> FALSE]

\* eviction that does not exempt the never-expiring sentinel
ShouldEvict_NoSentinel(c, entry, t) == t - entry.insertionTime > entry.expiry

\* clean: the Range callback's eviction condition
ShouldEvict(c, entry, t) ==
    entry.expiry # defaultExpiry /\ t - entry.insertionTime > entry.expiry

\* clean: the Range callback applied to the keys in the order Range yields them;
\* it deletes an evictable entry and goes on, and stops the Range at the first
\* entry it does not evict
RECURSIVE RangeClean(_, _, _, _)
RangeClean(c, m, order, t) ==
    IF order = <<>> THEN m
    ELSE IF ShouldEvict(c, m[Head(order)], t)
    THEN RangeClean(c, Delete(m, Head(order)), Tail(order), t)
    ELSE m

\* time.Sleep(d): the time the caller stays asleep; d <= 0 returns at once
SleepFor(d) == IF d > 0 THEN d ELSE 0

\* the orders in which Range can yield the keys of S
Orders(S) == {o \in [1..Cardinality(S) -> S] : \A i, j \in 1..Cardinality(S) : o[i] = o[j] => i = j}

\* ------------------------------------------------------------------ Init
Ret(op, key, exp, err, found, resp, existed) ==
    [op |-> op, key |-> key, exp |-> exp, itv |-> 0, err |-> err, found |-> found,
     resp |-> resp, existed |-> existed]

\* the record of a call that takes an Expiry and a CleanInterval
RetTime(op, paramsExpiry, paramsInterval) ==
    [Ret(op, "", paramsExpiry, "", FALSE, NilResponse, FALSE) EXCEPT !.itv = paramsInterval]

NoShadow == [op |-> "none", val |-> NoValue, t |-> 0, e |-> 0]

\* the zero value of sync.RWMutex: no writer, no reader
NoLock == [w |-> FALSE, r |-> 0]

\* a method that takes cache.lock itself, as a reader in Get and as the writer
\* in the others, waits while another goroutine holds it
WaitsForLock_Internal(l, op) == IF op = "Get" THEN l.w ELSE l.w \/ l.r > 0

\* whether the method op has to wait for cache.lock: none of Update, Add, Get,
\* Remove and clean calls it
WaitsForLock(l, op) == FALSE

\* what a call hands back to its caller
Result(err, found, resp) == [err |-> err, found |-> found, resp |-> resp]

\* a goroutine that has not called the cache yet.  pc is its position, value,
\* nv and randOk the parameters of the running call and what rand.Read gives
\* it, entry the cacheEntry its pointer refers to, res what its last call
\* returned; alone is the store the same calls leave when no other goroutine
\* runs, want what the last call returns there, alonePanic whether one of
\* them panics there
NoCall ==
    [pc |-> "idle", value |-> NoValue, nv |-> 0, randOk |-> TRUE,
     entry |-> [value |-> NoValue, expiry |-> 0, insertionTime |-> 0],
     res |-> Result("", FALSE, NilResponse), want |-> Result("", FALSE, NilResponse),
     alone |-> << >>, alonePanic |-> FALSE]

\* the state NewCache(params) returns, its clean goroutine started
NewCache(paramsExpiry, paramsInterval, obfuscated, key) ==
    /\ cacheMap = << >>
    /\ expiry = NewCacheExpiry(paramsExpiry)
    /\ cleanInterval = paramsInterval
    /\ obfuscator = IF obfuscated THEN <<key>> ELSE <<>>
    /\ now = 0
    /\ sweepSleep = SleepFor(paramsInterval)
    /\ crashed = FALSE
    /\ ret = RetTime("NewCache", paramsExpiry, paramsInterval)
    /\ shadow = [k \in CacheKeys |-> NoShadow]
    /\ lock = NoLock
    /\ threads = [k \in CacheKeys |-> NoCall]

\* NewObfuscator: rand.Read fills the key, or it fails and the function panics
NewObfuscator(key, randOk) ==
    [panic |-> ~randOk, obfuscator |-> IF randOk THEN <<key>> ELSE <<>>]

\* NewCache with the outcome of NewObfuscator's rand.Read: a panic there leaves
\* NewCache before `go cache.clean()` and before its return
NewCacheRand(paramsExpiry, paramsInterval, key, randOk) ==
    LET o == NewObfuscator(key, randOk)
    IN  IF ~o.panic THEN NewCache(paramsExpiry, paramsInterval, TRUE, key)
        ELSE /\ cacheMap = << >>
             /\ expiry = NewCacheExpiry(paramsExpiry)
             /\ cleanInterval = paramsInterval
             /\ obfuscator = o.obfuscator
             /\ now = 0
             /\ sweepSleep = 0
             /\ crashed = TRUE
             /\ ret = [RetTime("NewCache", paramsExpiry, paramsInterval) EXCEPT !.err = "panic"]
             /\ shadow = [k \in CacheKeys |-> NoShadow]
             /\ lock = NoLock
             /\ threads = [k \in CacheKeys |-> NoCall]

Init ==
    \E e \in Durations, i \in Intervals, obfuscated \in BOOLEAN, key \in ObfuscatorKeys :
        NewCache(e, i, obfuscated, key)

\* --------------------------------------------------------------- actions
Add(key, value, paramsExpiry, nv, randOk) ==
    LET r == AddOp(Cache, key, value, paramsExpiry, now, nv, randOk)
    IN  /\ ~crashed
        /\ ~WaitsForLock(lock, "Add")
        /\ cacheMap' = r.cacheMap
        /\ ret' = Ret("Add", key, paramsExpiry, r.err, FALSE, NilResponse, Load(cacheMap, key))
        /\ shadow' = IF r.err = ""
                     THEN [shadow EXCEPT ![key] = [op |-> "stored", val |-> value, t |-> now,
                                                   e |-> r.cacheMap[key].expiry]]
                     ELSE shadow
        /\ UNCHANGED <<expiry, cleanInterval, obfuscator, now, sweepSleep, crashed>>
        /\ UNCHANGED <<lock, threads>>

Update(key, value, nv, randOk) ==
    LET r == UpdateOp(Cache, key, value, nv, randOk)
    IN  /\ ~crashed
        /\ ~WaitsForLock(lock, "Update")
        /\ cacheMap' = r.cacheMap
        /\ ret' = Ret("Update", key, 0, r.err, FALSE, NilResponse, Load(cacheMap, key))
        /\ shadow' = IF ~Load(cacheMap, key) THEN shadow
                     ELSE [shadow EXCEPT ![key].op = IF r.err = "" THEN "stored" ELSE "UpdateErr",
                                         ![key].val = value]
        /\ UNCHANGED <<expiry, cleanInterval, obfuscator, now, sweepSleep, crashed>>
        /\ UNCHANGED <<lock, threads>>

Get(key) ==
    LET r == GetOp(Cache, key, now)
    IN  /\ ~crashed
        /\ ~WaitsForLock(lock, "Get")
        /\ cacheMap' = r.cacheMap
        /\ crashed' = r.panic
        /\ ret' = Ret("Get", key, 0, IF r.panic THEN "panic" ELSE "", r.found, r.resp,
                      Load(cacheMap, key))
        /\ shadow' = IF Load(r.cacheMap, key) THEN shadow
                     ELSE [shadow EXCEPT ![key] = NoShadow]
        /\ UNCHANGED <<expiry, cleanInterval, obfuscator, now, sweepSleep>>
        /\ UNCHANGED <<lock, threads>>

Remove(key) ==
    /\ ~crashed
    /\ ~WaitsForLock(lock, "Remove")
    /\ cacheMap' = RemoveOp(Cache, key)
    /\ ret' = Ret("Remove", key, 0, "", FALSE, NilResponse, Load(cacheMap, key))
    /\ shadow' = [shadow EXCEPT ![key] = NoShadow]
    /\ UNCHANGED <<expiry, cleanInterval, obfuscator, now, sweepSleep, crashed>>
    /\ UNCHANGED <<lock, threads>>

UpdateTime(paramsExpiry, paramsInterval) ==
    /\ ~crashed
    /\ expiry' = paramsExpiry
    /\ cleanInterval' = paramsInterval
    /\ ret' = RetTime("UpdateTime", paramsExpiry, paramsInterval)
    /\ UNCHANGED <<cacheMap, obfuscator, now, sweepSleep, crashed, shadow>>
    /\ UNCHANGED <<lock, threads>>

\* Cache.UpdateExpiry, the expiry-only form of the update
UpdateExpiry(paramsExpiry) ==
    /\ ~crashed
    /\ expiry' = paramsExpiry
    /\ ret' = Ret("UpdateExpiry", "", paramsExpiry, "", FALSE, NilResponse, FALSE)
    /\ UNCHANGED <<cacheMap, cleanInterval, obfuscator, now, sweepSleep, crashed, shadow>>
    /\ UNCHANGED <<lock, threads>>

\* the clock advances
Tick ==
    /\ ~crashed
    /\ now < MaxTime
    /\ now' = now + 1
    /\ ret' = Ret("Tick", "", 0, "", FALSE, NilResponse, FALSE)
    /\ sweepSleep' = IF sweepSleep > 0 THEN sweepSleep - 1 ELSE 0
    /\ UNCHANGED <<cacheMap, expiry, cleanInterval, obfuscator, crashed, shadow>>
    /\ UNCHANGED <<lock, threads>>

\* clean: time.Sleep(cache.cleanInterval) has returned and one cacheMap.Range
\* runs over the stored keys in the order `order`; the loop then sleeps again
Sweep(order) ==
    /\ ~crashed
    /\ ~WaitsForLock(lock, "clean")
    /\ sweepSleep = 0
    /\ cacheMap' = RangeClean(Cache, cacheMap, order, now)
    /\ sweepSleep' = SleepFor(cleanInterval)
    /\ ret' = Ret("clean", "", 0, "", FALSE, NilResponse, FALSE)
    /\ shadow' = [k \in CacheKeys |-> IF Load(cacheMap', k) THEN shadow[k] ELSE NoShadow]
    /\ UNCHANGED <<expiry, cleanInterval, obfuscator, now, crashed>>
    /\ UNCHANGED <<lock, threads>>

\* what rand.Read can give a call: <<nonce, TRUE>>, or a failure; a cache without
\* obfuscator never reads it
RandReads ==
    IF obfuscator = <<>> THEN {<<0, TRUE>>}
    ELSE {<<nv, TRUE>> : nv \in Nonces} \cup {<<0, FALSE>>}

\* one key, every kind of value, duration and interval
Next ==
    \/ \E key \in OneKey, value \in Values, e \in Overrides, rnd \in RandReads :
          Add(key, value, e, rnd[1], rnd[2])
    \/ \E key \in OneKey, value \in Values, rnd \in RandReads :
          Update(key, value, rnd[1], rnd[2])
    \/ \E key \in OneKey : Get(key)
    \/ \E key \in OneKey : Remove(key)
    \/ \E e \in Durations, i \in Intervals : UpdateTime(e, i)
    \/ \E e \in Durations : UpdateExpiry(e)
    \/ Tick
    \/ \E order \in Orders(DOMAIN cacheMap) : Sweep(order)

Spec == Init /\ [][Next]_vars

\* two keys in a cache without obfuscator, whose expiry is never or 1
KeysDurations == {-1, 1}

InitKeys ==
    \E e \in KeysDurations, i \in Intervals, key \in ObfuscatorKeys :
        NewCache(e, i, FALSE, key)

NextKeys ==
    \/ \E key \in CacheKeys, value \in Values, e \in Overrides, rnd \in RandReads :
          Add(key, value, e, rnd[1], rnd[2])
    \/ \E key \in CacheKeys, value \in Values, rnd \in RandReads :
          Update(key, value, rnd[1], rnd[2])
    \/ \E key \in CacheKeys : Get(key)
    \/ \E key \in CacheKeys : Remove(key)
    \/ \E e \in KeysDurations, i \in Intervals : UpdateTime(e, i)
    \/ Tick
    \/ \E order \in Orders(DOMAIN cacheMap) : Sweep(order)

SpecKeys == InitKeys /\ [][NextKeys]_vars

\* two keys in a cache without obfuscator and without read traffic: no Get and
\* no Remove is called; a field left out of the params of NewCache or UpdateTime
\* is Go's zero value, 0.  The clean goroutine and the clock are scheduled
\* fairly.
SweepDurations == {-1, 0, 1}
SweepIntervals == {0, 1}
SweepValues == {IntValue(7)}

InitSweep ==
    \E e \in SweepDurations, i \in SweepIntervals, key \in ObfuscatorKeys :
        NewCache(e, i, FALSE, key)

SweepStep == \E order \in Orders(DOMAIN cacheMap) : Sweep(order)

\* no stored entry is within a finite expiry: more time changes no entry
\* between live and expired
Settled ==
    \A k \in DOMAIN cacheMap :
       cacheMap[k].expiry < 0 \/ now - cacheMap[k].insertionTime > cacheMap[k].expiry

\* time beyond MaxTime: clean's time.Sleep still runs out while the clock
\* reading of the model stays at its bound; taken only when more time changes
\* no stored entry between live and expired
Horizon ==
    /\ ~crashed
    /\ now = MaxTime
    /\ sweepSleep > 0
    /\ Settled
    /\ sweepSleep' = sweepSleep - 1
    /\ ret' = Ret("Tick", "", 0, "", FALSE, NilResponse, FALSE)
    /\ UNCHANGED <<cacheMap, expiry, cleanInterval, obfuscator, now, crashed, shadow>>
    /\ UNCHANGED <<lock, threads>>

NextSweep ==
    \/ \E key \in CacheKeys, value \in SweepValues, rnd \in RandReads :
          Add(key, value, 0, rnd[1], rnd[2])
    \/ \E e \in SweepDurations, i \in SweepIntervals : UpdateTime(e, i)
    \/ Tick
    \/ Horizon
    \/ SweepStep

SpecSweep ==
    InitSweep /\ [][NextSweep]_vars
    /\ WF_vars(Tick) /\ WF_vars(Horizon) /\ WF_vars(SweepStep)

\* one key in an obfuscated cache whose stored payloads can be altered behind
\* the cache's back: one byte changed, the payload cut short, or replaced by
\* the same value sealed under another key
ForeignKeys == {6}
TamperDurations == {-1, 1}
FlipMasks == {1, 128}

\* the longest payload stored: nonce, the digits of the largest value, tag
PayloadLen == NonceSize + Len(Digits(42)) + TagSize

\* <<"flip", i, mask>>: byte i changed by mask; <<"cut", n, 0>>: only the first
\* n bytes kept; <<"key", k, 0>>: the value sealed again under the key k
Tampers ==
    ({"flip"} \X (1..PayloadLen) \X FlipMasks)
    \cup ({"cut"} \X (0..(PayloadLen - 1)) \X {0})
    \cup ({"key"} \X ForeignKeys \X {0})

TamperFits(b, tmp) ==
    CASE tmp[1] = "flip" -> tmp[2] <= Len(b)
      [] tmp[1] = "cut"  -> tmp[2] < Len(b)
      [] OTHER           -> TRUE

ApplyTamper(b, plaintext, tmp) ==
    CASE tmp[1] = "flip" -> [b EXCEPT ![tmp[2]] = (b[tmp[2]] + tmp[3]) % 256]
      [] tmp[1] = "cut"  -> SubSeq(b, 1, tmp[2])
      [] OTHER           -> GcmSeal(tmp[2], SubSeq(b, 1, NonceSize), plaintext)

Tamper(key, tmp) ==
    /\ ~crashed
    /\ Load(cacheMap, key)
    /\ shadow[key].op = "stored"
    /\ TamperFits(cacheMap[key].value.b, tmp)
    /\ cacheMap' = [cacheMap EXCEPT ![key].value =
                       BytesValue(ApplyTamper(cacheMap[key].value.b,
                                              Marshal(shadow[key].val).b, tmp))]
    /\ shadow' = [shadow EXCEPT ![key].op = "tampered"]
    /\ ret' = Ret("Tamper", key, 0, "", FALSE, NilResponse, TRUE)
    /\ UNCHANGED <<expiry, cleanInterval, obfuscator, now, sweepSleep, crashed>>
    /\ UNCHANGED <<lock, threads>>

InitTamper ==
    \E e \in TamperDurations, i \in Intervals, key \in ObfuscatorKeys :
        NewCache(e, i, TRUE, key)

NextTamper ==
    \/ \E key \in OneKey, value \in Values, rnd \in RandReads :
          Add(key, value, 0, rnd[1], rnd[2])
    \/ \E key \in OneKey : Get(key)
    \/ \E key \in OneKey, tmp \in Tampers : Tamper(key, tmp)
    \/ Tick

SpecTamper == InitTamper /\ [][NextTamper]_vars

\* one goroutine per key of a cache without obfuscator, each calling Add, Get,
\* Update and Remove on its own key only, the clean goroutine not scheduled.
\* The goroutine t works on the key `key` in all of its calls; a step is one
\* access to the memory
\* the goroutines share: a Load, Store or Delete of the map, a read or write
\* through the *cacheEntry a goroutine holds, a read of the clock
Threads == CacheKeys

\* the receiver a goroutine would see had it run alone
Alone(t) == [Cache EXCEPT !.cacheMap = threads[t].alone]

\* a write through the pointer to the entry stored under key: the stored entry
\* is the one written
WriteEntry(m, key, entry) == IF Load(m, key) THEN Store(m, key, entry) ELSE m

\* the call returns res: its parameters and locals are gone
Return(me, res) ==
    [me EXCEPT !.pc = "idle", !.value = NoValue, !.nv = 0, !.randOk = TRUE,
               !.entry = NoCall.entry, !.res = res]

\* Add: the entry is built and encoded; a failure returns at once
ThreadAdd(t, key, value, nv, randOk) ==
    LET r == addInCache(Cache, << >>, key, NewEntry(Cache, value, 0, now), nv, randOk)
        a == AddOp(Alone(t), key, value, 0, now, nv, randOk)
        me == [threads[t] EXCEPT !.value = value, !.nv = nv, !.randOk = randOk,
                                 !.want = Result(a.err, FALSE, NilResponse),
                                 !.alone = a.cacheMap]
    IN  /\ ~crashed
        /\ threads[t].pc = "idle"
        /\ threads' = [threads EXCEPT ![t] =
                          IF r.err # ""
                          THEN Return(me, Result(r.err, FALSE, NilResponse))
                          ELSE [me EXCEPT !.pc = "AddStore", !.entry = r.cacheMap[key]]]
        /\ UNCHANGED <<cacheMap, expiry, cleanInterval, obfuscator, now, sweepSleep,
                       crashed, ret, shadow, lock>>

\* addInCache: cache.cacheMap.Store(key, value)
ThreadStore(t, key) ==
    /\ ~crashed
    /\ threads[t].pc \in {"AddStore", "UpdateStore"}
    /\ cacheMap' = Store(cacheMap, key, threads[t].entry)
    /\ threads' = [threads EXCEPT ![t] = Return(@, Result("", FALSE, NilResponse))]
    /\ UNCHANGED <<expiry, cleanInterval, obfuscator, now, sweepSleep,
                   crashed, ret, shadow, lock>>

\* Update: cache.cacheMap.Load(params.Key)
ThreadUpdate(t, key, value, nv, randOk) ==
    LET a == UpdateOp(Alone(t), key, value, nv, randOk)
        me == [threads[t] EXCEPT !.value = value, !.nv = nv, !.randOk = randOk,
                                 !.want = Result(a.err, FALSE, NilResponse),
                                 !.alone = a.cacheMap]
    IN  /\ ~crashed
        /\ threads[t].pc = "idle"
        /\ threads' = [threads EXCEPT ![t] =
                          IF ~Load(cacheMap, key)
                          THEN Return(me, Result("value doesn't exist in cache",
                                                 FALSE, NilResponse))
                          ELSE [me EXCEPT !.pc = "UpdateWrite", !.entry = cacheMap[key]]]
        /\ UNCHANGED <<cacheMap, expiry, cleanInterval, obfuscator, now, sweepSleep,
                       crashed, ret, shadow, lock>>

\* Update: entry.value = params.Value
ThreadUpdateWrite(t, key) ==
    LET entry == [threads[t].entry EXCEPT !.value = threads[t].value]
    IN  /\ ~crashed
        /\ threads[t].pc = "UpdateWrite"
        /\ cacheMap' = WriteEntry(cacheMap, key, entry)
        /\ threads' = [threads EXCEPT ![t].pc = "UpdateEncode", ![t].entry = entry]
        /\ UNCHANGED <<expiry, cleanInterval, obfuscator, now, sweepSleep,
                       crashed, ret, shadow, lock>>

\* addInCache called by Update: the value is encoded and, when that succeeds,
\* value.value = insertValue is written through the pointer
ThreadUpdateEncode(t, key) ==
    LET r == addInCache(Cache, << >>, key, threads[t].entry, threads[t].nv, threads[t].randOk)
    IN  /\ ~crashed
        /\ threads[t].pc = "UpdateEncode"
        /\ cacheMap' = IF r.err # "" THEN cacheMap ELSE WriteEntry(cacheMap, key, r.cacheMap[key])
        /\ threads' = [threads EXCEPT ![t] =
                          IF r.err # ""
                          THEN Return(@, Result(r.err, FALSE, NilResponse))
                          ELSE [@ EXCEPT !.pc = "UpdateStore", !.entry = r.cacheMap[key]]]
        /\ UNCHANGED <<expiry, cleanInterval, obfuscator, now, sweepSleep,
                       crashed, ret, shadow, lock>>

\* what Get gives the goroutine running alone, at the present clock reading
AloneGet(t, key) ==
    LET a == GetOp(Alone(t), key, now)
    IN  [threads[t] EXCEPT !.want = Result("", a.found, a.resp),
                           !.alone = a.cacheMap,
                           !.alonePanic = @ \/ a.panic]

\* Get: cache.cacheMap.Load(key)
ThreadGet(t, key) ==
    /\ ~crashed
    /\ threads[t].pc = "idle"
    /\ threads' = [threads EXCEPT ![t] =
                      IF ~Load(cacheMap, key)
                      THEN Return(AloneGet(t, key), Result("", FALSE, NilResponse))
                      ELSE [@ EXCEPT !.pc = "GetCheck", !.entry = cacheMap[key]]]
    /\ UNCHANGED <<cacheMap, expiry, cleanInterval, obfuscator, now, sweepSleep,
                   crashed, ret, shadow, lock>>

\* Get: the expiry test with its reading of the clock, the type assertion and
\* the deobfuscation of the entry that Load returned
ThreadGetCheck(t, key) ==
    LET g == GetOp([Cache EXCEPT !.cacheMap = Store(<< >>, key, threads[t].entry)], key, now)
    IN  /\ ~crashed
        /\ threads[t].pc = "GetCheck"
        /\ crashed' = g.panic
        /\ threads' = [threads EXCEPT ![t] =
                          IF g.panic THEN AloneGet(t, key)
                          ELSE IF g.found
                          THEN Return(AloneGet(t, key), Result("", TRUE, g.resp))
                          ELSE [AloneGet(t, key) EXCEPT !.pc = "GetRemove"]]
        /\ UNCHANGED <<cacheMap, expiry, cleanInterval, obfuscator, now, sweepSleep,
                       ret, shadow, lock>>

\* Get: cache.Remove(key), then return nil, false
ThreadGetRemove(t, key) ==
    /\ ~crashed
    /\ threads[t].pc = "GetRemove"
    /\ cacheMap' = RemoveOp(Cache, key)
    /\ threads' = [threads EXCEPT ![t] = Return(@, Result("", FALSE, NilResponse))]
    /\ UNCHANGED <<expiry, cleanInterval, obfuscator, now, sweepSleep,
                   crashed, ret, shadow, lock>>

\* Remove: cache.cacheMap.Delete(key)
ThreadRemove(t, key) ==
    /\ ~crashed
    /\ threads[t].pc = "idle"
    /\ cacheMap' = RemoveOp(Cache, key)
    /\ threads' = [threads EXCEPT ![t].res = Result("", FALSE, NilResponse),
                                  ![t].want = Result("", FALSE, NilResponse),
                                  ![t].alone = RemoveOp(Alone(t), key)]
    /\ UNCHANGED <<expiry, cleanInterval, obfuscator, now, sweepSleep,
                   crashed, ret, shadow, lock>>

ThreadDurations == {-1, 1}
ThreadValues == Values

InitThreads ==
    \E e \in ThreadDurations, i \in Intervals, key \in ObfuscatorKeys :
        NewCache(e, i, FALSE, key)

NextThreads ==
    \/ \E t \in Threads, value \in ThreadValues, rnd \in RandReads :
          ThreadAdd(t, t, value, rnd[1], rnd[2])
    \/ \E t \in Threads : ThreadStore(t, t)
    \/ \E t \in Threads, value \in ThreadValues, rnd \in RandReads :
          ThreadUpdate(t, t, value, rnd[1], rnd[2])
    \/ \E t \in Threads : ThreadUpdateWrite(t, t)
    \/ \E t \in Threads : ThreadUpdateEncode(t, t)
    \/ \E t \in Threads : ThreadGet(t, t)
    \/ \E t \in Threads : ThreadGetCheck(t, t)
    \/ \E t \in Threads : ThreadGetRemove(t, t)
    \/ \E t \in Threads : ThreadRemove(t, t)
    \/ Tick

SpecThreads == InitThreads /\ [][NextThreads]_vars

\* two goroutines on the same key of a cache without obfuscator whose entries
\* expire: each calls Add and Get on that key, so that the steps of a Get
\* interleave with the steps of an Add of the other.  No call writes through a
\* pointer to a stored entry here, so the entry a Get has loaded stays as it was
\* loaded
RaceDurations == {1}

InitRace ==
    \E e \in RaceDurations, i \in Intervals, key \in ObfuscatorKeys :
        NewCache(e, i, FALSE, key)

NextRace ==
    \/ \E t \in Threads, key \in OneKey, value \in ThreadValues, rnd \in RandReads :
          ThreadAdd(t, key, value, rnd[1], rnd[2])
    \/ \E t \in Threads, key \in OneKey : ThreadStore(t, key)
    \/ \E t \in Threads, key \in OneKey : ThreadGet(t, key)
    \/ \E t \in Threads, key \in OneKey : ThreadGetCheck(t, key)
    \/ \E t \in Threads, key \in OneKey : ThreadGetRemove(t, key)
    \/ Tick

SpecRace == InitRace /\ [][NextRace]_vars

\* one key in a cache without obfuscator whose callers also take and release
\* the coarse lock; a caller that holds it calls nothing else meanwhile
LockDurations == {-1, 1}

\* Cache.Lock: waits while a writer or a reader holds the lock
Lock ==
    /\ ~crashed
    /\ ~lock.w /\ lock.r = 0
    /\ lock' = [lock EXCEPT !.w = TRUE]
    /\ ret' = Ret("Lock", "", 0, "", FALSE, NilResponse, FALSE)
    /\ UNCHANGED <<cacheMap, expiry, cleanInterval, obfuscator, now, sweepSleep,
                   crashed, shadow, threads>>

\* Cache.Unlock: unlocking a lock that no writer holds is a fatal error
Unlock ==
    /\ ~crashed
    /\ lock' = [lock EXCEPT !.w = FALSE]
    /\ crashed' = ~lock.w
    /\ ret' = Ret("Unlock", "", 0, IF lock.w THEN "" ELSE "fatal", FALSE, NilResponse, FALSE)
    /\ UNCHANGED <<cacheMap, expiry, cleanInterval, obfuscator, now, sweepSleep,
                   shadow, threads>>

\* Cache.RLock: waits while a writer holds the lock
RLock ==
    /\ ~crashed
    /\ ~lock.w /\ lock.r < MaxReaders
    /\ lock' = [lock EXCEPT !.r = @ + 1]
    /\ ret' = Ret("RLock", "", 0, "", FALSE, NilResponse, FALSE)
    /\ UNCHANGED <<cacheMap, expiry, cleanInterval, obfuscator, now, sweepSleep,
                   crashed, shadow, threads>>

\* Cache.RUnlock: unlocking a lock that no reader holds is a fatal error
RUnlock ==
    /\ ~crashed
    /\ lock' = [lock EXCEPT !.r = IF @ > 0 THEN @ - 1 ELSE 0]
    /\ crashed' = (lock.r = 0)
    /\ ret' = Ret("RUnlock", "", 0, IF lock.r > 0 THEN "" ELSE "fatal", FALSE, NilResponse, FALSE)
    /\ UNCHANGED <<cacheMap, expiry, cleanInterval, obfuscator, now, sweepSleep,
                   shadow, threads>>

InitLock ==
    \E e \in LockDurations, i \in Intervals, key \in ObfuscatorKeys :
        NewCache(e, i, FALSE, key)

NextLock ==
    \/ \E key \in OneKey, value \in Values, rnd \in RandReads :
          Add(key, value, 0, rnd[1], rnd[2])
    \/ \E key \in OneKey, value \in Values, rnd \in RandReads :
          Update(key, value, rnd[1], rnd[2])
    \/ \E key \in OneKey : Get(key)
    \/ \E key \in OneKey : Remove(key)
    \/ Tick
    \/ SweepStep
    \/ Lock
    \/ Unlock
    \/ RLock
    \/ RUnlock

SpecLock == InitLock /\ [][NextLock]_vars

\* callers that wrap every cache operation in Lock and Unlock, all working on
\* one key, next to the clean goroutine.  The goroutine t is at "Locked" from
\* its Lock to its Unlock; alone is the store as its last step left it, res
\* what its last operation under this Lock returned
TxnLock(t) ==
    /\ ~crashed
    /\ threads[t].pc = "idle"
    /\ ~lock.w /\ lock.r = 0
    /\ lock' = [lock EXCEPT !.w = TRUE]
    /\ threads' = [threads EXCEPT ![t].pc = "Locked", ![t].alone = cacheMap,
                                  ![t].res = Result("", FALSE, NilResponse)]
    /\ UNCHANGED <<cacheMap, expiry, cleanInterval, obfuscator, now, sweepSleep,
                   crashed, ret, shadow>>

TxnUnlock(t) ==
    /\ ~crashed
    /\ threads[t].pc = "Locked"
    /\ lock' = [lock EXCEPT !.w = FALSE]
    /\ threads' = [threads EXCEPT ![t].pc = "idle"]
    /\ UNCHANGED <<cacheMap, expiry, cleanInterval, obfuscator, now, sweepSleep,
                   crashed, ret, shadow>>

TxnAdd(t, key, value, nv, randOk) ==
    LET r == AddOp(Cache, key, value, 0, now, nv, randOk)
    IN  /\ ~crashed
        /\ threads[t].pc = "Locked"
        /\ cacheMap' = r.cacheMap
        /\ threads' = [threads EXCEPT ![t].res = Result(r.err, FALSE, NilResponse),
                                      ![t].alone = r.cacheMap]
        /\ UNCHANGED <<expiry, cleanInterval, obfuscator, now, sweepSleep,
                       crashed, ret, shadow, lock>>

TxnUpdate(t, key, value, nv, randOk) ==
    LET r == UpdateOp(Cache, key, value, nv, randOk)
    IN  /\ ~crashed
        /\ threads[t].pc = "Locked"
        /\ cacheMap' = r.cacheMap
        /\ threads' = [threads EXCEPT ![t].res = Result(r.err, FALSE, NilResponse),
                                      ![t].alone = r.cacheMap]
        /\ UNCHANGED <<expiry, cleanInterval, obfuscator, now, sweepSleep,
                       crashed, ret, shadow, lock>>

TxnGet(t, key) ==
    LET r == GetOp(Cache, key, now)
    IN  /\ ~crashed
        /\ threads[t].pc = "Locked"
        /\ cacheMap' = r.cacheMap
        /\ crashed' = r.panic
        /\ threads' = [threads EXCEPT ![t].res = Result("", r.found, r.resp),
                                      ![t].alone = r.cacheMap]
        /\ UNCHANGED <<expiry, cleanInterval, obfuscator, now, sweepSleep,
                       ret, shadow, lock>>

TxnRemove(t, key) ==
    /\ ~crashed
    /\ threads[t].pc = "Locked"
    /\ cacheMap' = RemoveOp(Cache, key)
    /\ threads' = [threads EXCEPT ![t].res = Result("", FALSE, NilResponse),
                                  ![t].alone = RemoveOp(Cache, key)]
    /\ UNCHANGED <<expiry, cleanInterval, obfuscator, now, sweepSleep,
                   crashed, ret, shadow, lock>>

InitTxn ==
    \E e \in LockDurations, i \in Intervals, key \in ObfuscatorKeys :
        NewCache(e, i, FALSE, key)

NextTxn ==
    \/ \E t \in Threads : TxnLock(t)
    \/ \E t \in Threads : TxnUnlock(t)
    \/ \E t \in Threads, key \in OneKey, value \in ThreadValues, rnd \in RandReads :
          TxnAdd(t, key, value, rnd[1], rnd[2])
    \/ \E t \in Threads, key \in OneKey, value \in ThreadValues, rnd \in RandReads :
          TxnUpdate(t, key, value, rnd[1], rnd[2])
    \/ \E t \in Threads, key \in OneKey : TxnGet(t, key)
    \/ \E t \in Threads, key \in OneKey : TxnRemove(t, key)
    \/ Tick
    \/ SweepStep

SpecTxn == InitTxn /\ [][NextTxn]_vars

\* two keys, with GetAllCacheInfo called while no other call and no Range of
\* clean is running
GetAllCacheInfo(order) ==
    LET r == GetAllOp(Cache, order, now)
    IN  /\ ~crashed
        /\ cacheMap' = r.cacheMap
        /\ crashed' = r.panic
        /\ ret' = Ret("GetAllCacheInfo", "", 0, IF r.panic THEN "panic" ELSE "", FALSE,
                      r.result, FALSE)
        /\ shadow' = [k \in CacheKeys |-> IF Load(r.cacheMap, k) THEN shadow[k] ELSE NoShadow]
        /\ UNCHANGED <<expiry, cleanInterval, obfuscator, now, sweepSleep, lock, threads>>

AllValues == {IntValue(7), ChanValue}

InitAll ==
    \E e \in KeysDurations, i \in Intervals, obfuscated \in BOOLEAN, key \in ObfuscatorKeys :
        NewCache(e, i, obfuscated, key)

NextAll ==
    \/ \E key \in CacheKeys, value \in AllValues, e \in Overrides, rnd \in RandReads :
          Add(key, value, e, rnd[1], rnd[2])
    \/ \E key \in CacheKeys, value \in AllValues, rnd \in RandReads :
          Update(key, value, rnd[1], rnd[2])
    \/ Tick
    \/ \E order \in Orders(DOMAIN cacheMap) : GetAllCacheInfo(order)

SpecAll == InitAll /\ [][NextAll]_vars

\* one key in an obfuscated cache whose stored payloads can be altered, read
\* with the Get that decodes into a target of the caller
GetTyped(key, target) ==
    LET r == GetTypedOp(Cache, key, target, now)
    IN  /\ ~crashed
        /\ cacheMap' = r.cacheMap
        /\ crashed' = r.panic
        /\ ret' = [op |-> "GetTyped", key |-> key, target |-> target, err |-> r.err,
                   v |-> r.v, existed |-> Load(cacheMap, key)]
        /\ shadow' = IF Load(r.cacheMap, key) THEN shadow
                     ELSE [shadow EXCEPT ![key] = NoShadow]
        /\ UNCHANGED <<expiry, cleanInterval, obfuscator, now, sweepSleep, lock, threads>>

NextTyped ==
    \/ \E key \in OneKey, value \in Values, rnd \in RandReads :
          Add(key, value, 0, rnd[1], rnd[2])
    \/ \E key \in OneKey, target \in Targets : GetTyped(key, target)
    \/ \E key \in OneKey, tmp \in Tampers : Tamper(key, tmp)
    \/ Tick

SpecTyped == InitTamper /\ [][NextTyped]_vars

\* every operation a caller has on the Cache, next to the clean goroutine
\* that NewCache started; the goroutine's sleep always runs out
CacheOps == {"UpdateTime", "Update", "Add", "Get", "Remove",
             "RLock", "RUnlock", "Lock", "Unlock"}

NextDispose ==
    \/ \E key \in OneKey, value \in SweepValues, rnd \in RandReads :
          Add(key, value, 0, rnd[1], rnd[2])
    \/ \E key \in OneKey, value \in SweepValues, rnd \in RandReads :
          Update(key, value, rnd[1], rnd[2])
    \/ \E key \in OneKey : Get(key)
    \/ \E key \in OneKey : Remove(key)
    \/ \E e \in SweepDurations, i \in SweepIntervals : UpdateTime(e, i)
    \/ Lock
    \/ Unlock
    \/ RLock
    \/ RUnlock
    \/ Tick
    \/ Horizon
    \/ SweepStep

SpecDispose ==
    InitSweep /\ [][NextDispose]_vars
    /\ WF_vars(Tick) /\ WF_vars(Horizon) /\ WF_vars(SweepStep)

\* an obfuscated cache whose construction reads the random source, which can fail
InitCrypto ==
    \E e \in Durations, i \in Intervals, key \in ObfuscatorKeys, randOk \in BOOLEAN :
        NewCacheRand(e, i, key, randOk)

SpecCrypto == InitCrypto /\ [][Next]_vars

\* the clean goroutine step by step, next to a goroutine that calls Add on the
\* one key of a cache without obfuscator whose entries expire
Cleaner == CHOOSE t \in Threads : t \notin OneKey
Callers == Threads \ {Cleaner}

\* clean: time.Sleep(cache.cleanInterval) has returned and Range begins
CleanWake(t) ==
    /\ ~crashed
    /\ sweepSleep = 0
    /\ threads[t].pc = "idle"
    /\ threads' = [threads EXCEPT ![t].pc = "CleanRange"]
    /\ UNCHANGED <<cacheMap, expiry, cleanInterval, obfuscator, now, sweepSleep,
                   crashed, ret, shadow, lock>>

\* a clean whose loop ends with the first pass that evicts nothing
CleanRange_ExitOnKeep(t, key) ==
    LET evict == Load(cacheMap, key) /\ ShouldEvict(Cache, cacheMap[key], now)
    IN  /\ ~crashed
        /\ threads[t].pc = "CleanRange"
        /\ threads' = IF evict
                      THEN [threads EXCEPT ![t].pc = "CleanRemove", ![t].entry = cacheMap[key]]
                      ELSE [threads EXCEPT ![t].pc = "CleanExit"]
        /\ sweepSleep' = IF evict THEN sweepSleep ELSE SleepFor(cleanInterval)
        /\ UNCHANGED <<cacheMap, expiry, cleanInterval, obfuscator, now,
                       crashed, ret, shadow, lock>>

\* clean: Range yields the key with its entry, on which the callback evaluates
\* its condition; an empty map or an entry that is kept ends the pass, and the
\* loop sleeps again
CleanRange(t, key) ==
    LET evict == Load(cacheMap, key) /\ ShouldEvict(Cache, cacheMap[key], now)
    IN  /\ ~crashed
        /\ threads[t].pc = "CleanRange"
        /\ threads' = IF evict
                      THEN [threads EXCEPT ![t].pc = "CleanRemove", ![t].entry = cacheMap[key]]
                      ELSE [threads EXCEPT ![t].pc = "idle"]
        /\ sweepSleep' = IF evict THEN sweepSleep ELSE SleepFor(cleanInterval)
        /\ UNCHANGED <<cacheMap, expiry, cleanInterval, obfuscator, now,
                       crashed, ret, shadow, lock>>

\* clean: cache.Remove(key) in the callback, which ends the pass over one key
CleanRemove(t, key) ==
    /\ ~crashed
    /\ threads[t].pc = "CleanRemove"
    /\ cacheMap' = RemoveOp(Cache, key)
    /\ threads' = [threads EXCEPT ![t] = Return(@, @.res)]
    /\ sweepSleep' = SleepFor(cleanInterval)
    /\ UNCHANGED <<expiry, cleanInterval, obfuscator, now, crashed, ret, shadow, lock>>

NextCleanRace ==
    \/ \E t \in Callers, key \in OneKey, value \in ThreadValues, rnd \in RandReads :
          ThreadAdd(t, key, value, rnd[1], rnd[2])
    \/ \E t \in Callers, key \in OneKey : ThreadStore(t, key)
    \/ CleanWake(Cleaner)
    \/ \E key \in OneKey : CleanRange(Cleaner, key)
    \/ \E key \in OneKey : CleanRemove(Cleaner, key)
    \/ Tick

SpecCleanRace == InitRace /\ [][NextCleanRace]_vars

\* one goroutine calls Add and Update on the one key, step by step, while the
\* key is removed behind its back: by a Remove of another goroutine or by a
\* pass of clean.  Neither writes through the pointer Update holds.
NextResurrect ==
    \/ \E t \in Callers, key \in OneKey, value \in ThreadValues, rnd \in RandReads :
          ThreadAdd(t, key, value, rnd[1], rnd[2])
    \/ \E t \in Callers, key \in OneKey : ThreadStore(t, key)
    \/ \E t \in Callers, key \in OneKey, value \in ThreadValues, rnd \in RandReads :
          ThreadUpdate(t, key, value, rnd[1], rnd[2])
    \/ \E t \in Callers, key \in OneKey : ThreadUpdateWrite(t, key)
    \/ \E t \in Callers, key \in OneKey : ThreadUpdateEncode(t, key)
    \/ \E t \in Threads \ Callers, key \in OneKey : ThreadRemove(t, key)
    \/ CleanWake(Cleaner)
    \/ \E key \in OneKey : CleanRange(Cleaner, key)
    \/ \E key \in OneKey : CleanRemove(Cleaner, key)
    \/ Tick

SpecResurrect == InitRace /\ [][NextResurrect]_vars

\* one goroutine calls Update on the one key, step by step, while another
\* calls Add on it.  Update writes through the pointer it loaded: the runs
\* taken here are those in which the Add's Store does not fall between
\* Update's Load and the end of its encoding, so that the entry Update writes
\* to is the stored one
AddStoreApart(t, key) ==
    /\ \A u \in Callers : threads[u].pc \notin {"UpdateWrite", "UpdateEncode"}
    /\ ThreadStore(t, key)

NextRollback ==
    \/ \E t \in Threads \ Callers, key \in OneKey, value \in ThreadValues, rnd \in RandReads :
          ThreadAdd(t, key, value, rnd[1], rnd[2])
    \/ \E t \in Threads \ Callers, key \in OneKey : AddStoreApart(t, key)
    \/ \E t \in Callers, key \in OneKey, value \in ThreadValues, rnd \in RandReads :
          ThreadUpdate(t, key, value, rnd[1], rnd[2])
    \/ \E t \in Callers, key \in OneKey : ThreadUpdateWrite(t, key)
    \/ \E t \in Callers, key \in OneKey : ThreadUpdateEncode(t, key)
    \/ \E t \in Callers, key \in OneKey : ThreadStore(t, key)
    \/ Tick

SpecRollback == InitRace /\ [][NextRollback]_vars

\* the clean goroutine step by step in a cache whose CleanInterval is zero or
\* one, while a goroutine calls Add and Remove on the one key; the goroutine
\* of clean is scheduled again and again and time passes
CleanStep ==
    \/ CleanWake(Cleaner)
    \/ \E key \in OneKey : CleanRange(Cleaner, key)
    \/ \E key \in OneKey : CleanRemove(Cleaner, key)

NextCycle ==
    \/ \E t \in Callers, key \in OneKey, value \in ThreadValues, rnd \in RandReads :
          ThreadAdd(t, key, value, rnd[1], rnd[2])
    \/ \E t \in Callers, key \in OneKey : ThreadStore(t, key)
    \/ \E t \in Callers, key \in OneKey : ThreadRemove(t, key)
    \/ CleanStep
    \/ Tick

SpecCycle ==
    InitSweep /\ [][NextCycle]_vars /\ WF_vars(Tick) /\ WF_vars(CleanStep)

\* the phases of clean: asleep in time.Sleep, or inside cacheMap.Range
SweeperIdle == threads[Cleaner].pc = "idle"
SweeperSweeping == threads[Cleaner].pc \in {"CleanRange", "CleanRemove"}

\* the Obfuscator of an obfuscated cache called directly: Obfuscate on
\* plaintexts of up to MaxPlain bytes, Deobfuscate on what Obfuscate returned,
\* on every shorter prefix of it and on other short inputs
MaxPlain == 2
PlainBytes == {0, 49, 255}
Plaintexts == UNION {[1..n -> PlainBytes] : n \in 0..MaxPlain}
ShortInputs == {<<0>>, <<255, 49>>, [i \in 1..(NonceSize - 1) |-> 255]}

ObfuscateCall(plaintext, nv, randOk) ==
    LET o == Obfuscate(obfuscator, plaintext, nv, randOk)
    IN  /\ ~crashed
        /\ ret' = [op |-> "Obfuscate", plaintext |-> plaintext, err |-> o.err, b |-> o.b]
        /\ UNCHANGED <<cacheMap, expiry, cleanInterval, obfuscator, now, sweepSleep,
                       crashed, shadow, lock, threads>>

\* Deobfuscate on input; sealed and plaintext remember the Obfuscate before it
DeobfuscateCall(input) ==
    LET d == Deobfuscate(obfuscator, input)
    IN  /\ ~crashed
        /\ ret.op = "Obfuscate" /\ ret.err = ""
        /\ ret' = [op |-> "Deobfuscate", plaintext |-> ret.plaintext, sealed |-> ret.b,
                   input |-> input, err |-> d.err, b |-> d.b]
        /\ UNCHANGED <<cacheMap, expiry, cleanInterval, obfuscator, now, sweepSleep,
                       crashed, shadow, lock, threads>>

NextCodec ==
    \/ \E plaintext \in Plaintexts, rnd \in RandReads :
          ObfuscateCall(plaintext, rnd[1], rnd[2])
    \/ \E n \in 0..(NonceSize + MaxPlain + TagSize) :
          /\ ret.op = "Obfuscate" /\ ret.err = ""
          /\ n <= Len(ret.b)
          /\ DeobfuscateCall(SubSeq(ret.b, 1, n))
    \/ \E input \in ShortInputs : DeobfuscateCall(input)

SpecCodec == InitTamper /\ [][NextCodec]_vars

\* ---------------------------------------------------------------- claims
\* the payload a Get should hand back for the stored entry: the bytes stored,
\* opened with the cache's own key when the cache is obfuscated
StoredPlaintext(entry) ==
    IF obfuscator = <<>> THEN entry.value.b ELSE Deobfuscate(obfuscator, entry.value.b).b

\* C1: round trip.  A Get(k) on an entry whose payload the last write on k, a
\* successful Add(k, v) (or a successful Update(k, v) after it), stored and that
\* is live (expiry <= -1, or age <= expiry) reports found and returns exactly
\* json.Marshal(v), bytes that decode back to v; in a plain and in an obfuscated
\* cache.
C1_RoundTrip ==
    [][\A k \in CacheKeys :
          ( /\ ret'.op = "Get" /\ ret'.key = k
            /\ Load(cacheMap, k)
            /\ shadow[k].op = "stored"
            /\ \/ cacheMap[k].expiry <= -1
               \/ now - cacheMap[k].insertionTime <= cacheMap[k].expiry )
          => /\ ret'.found
             /\ ret'.resp = Response(Marshal(shadow[k].val).b, shadow[k].t)
             /\ Unmarshal(ret'.resp[1].Value) = [err |-> "", v |-> shadow[k].val]]_vars

\* a Get found the value that was stored, in an obfuscated cache
C1_Witness ==
    /\ ret.op = "Get" /\ ret.found
    /\ obfuscator # <<>>
    /\ shadow[ret.key].op = "stored"
    /\ Unmarshal(ret.resp[1].Value).v = IntValue(42)

\* C2: no stale reads.  For an entry added with a finite expiry E (E >= 0) and
\* not added again since, a Get(k) at age <= E reports found, and a Get(k) at
\* age > E reports not-found with a nil response and leaves k absent, whether or
\* not clean has run.
C2_NoStaleReads ==
    [][\A k \in CacheKeys :
          ( /\ ret'.op = "Get" /\ ret'.key = k
            /\ Load(cacheMap, k)
            /\ shadow[k].op = "stored"
            /\ shadow[k].e >= 0 )
          => IF now - shadow[k].t <= shadow[k].e
             THEN ret'.found /\ ret'.resp # NilResponse
             ELSE ~ret'.found /\ ret'.resp = NilResponse /\ ~Load(cacheMap', k)]_vars

\* a Get found a stored entry past its expiry and evicted it
C2_Witness ==
    /\ ret.op = "Get" /\ ret.existed /\ ~ret.found /\ ret.err = ""
    /\ ~Load(cacheMap, ret.key)

C4_UpdateKeepsWindow ==
    [][\A k \in CacheKeys :
          (ret'.op = "Update" /\ ret'.key = k /\ ret'.err = "")
          => /\ Load(cacheMap, k) /\ Load(cacheMap', k)
             /\ cacheMap'[k].insertionTime = shadow[k].t
             /\ cacheMap'[k].expiry = shadow[k].e
             /\ cacheMap'[k].value.kind = "bytes"
             /\ StoredPlaintext(cacheMap'[k]) = Marshal(shadow'[k].val).b
             /\ \A t \in now..(MaxTime + MaxDuration + 1) :
                   LET g == GetOp(Cache', k, t)
                   IN  IF shadow[k].e <= -1 \/ t - shadow[k].t <= shadow[k].e
                       THEN g.found /\ g.resp = Response(Marshal(shadow'[k].val).b, shadow[k].t)
                       ELSE ~g.found /\ g.resp = NilResponse]_vars

\* an Update has replaced the value of an entry that was added earlier with
\* another value, under a finite expiry that has not run out
C4_Witness ==
    /\ ret.op = "Update" /\ ret.err = "" /\ ret.existed
    /\ shadow[ret.key].val = IntValue(42)
    /\ shadow[ret.key].e > 0
    /\ now > shadow[ret.key].t
    /\ now - shadow[ret.key].t <= shadow[ret.key].e

\* C5: Update(k, v) on a key that is not stored returns an error and leaves the
\* store unchanged.
C5_UpdateMissing ==
    [][\A k \in CacheKeys :
          (ret'.op = "Update" /\ ret'.key = k /\ ~Load(cacheMap, k))
          => ret'.err # "" /\ cacheMap' = cacheMap]_vars

\* Update failed on an absent key while the other key was stored
C5_Witness ==
    /\ ret.op = "Update" /\ ~ret.existed
    /\ ret.err = "value doesn't exist in cache"
    /\ DOMAIN cacheMap # {}

\* C6: Add is last-write-wins.  A successful Add(k, v2) on a key that is stored
\* leaves one entry for k: its payload encodes v2, its insertionTime is the time
\* of this Add, its expiry the one this Add resolved, and a Get(k) returns v2.
C6_LastWriteWins ==
    [][\A k \in CacheKeys :
          (ret'.op = "Add" /\ ret'.key = k /\ ret'.err = "" /\ Load(cacheMap, k))
          => /\ Load(cacheMap', k)
             /\ cacheMap'[k].insertionTime = now
             /\ cacheMap'[k].expiry = (IF ret'.exp > 0 THEN ret'.exp ELSE expiry)
             /\ cacheMap'[k].value.kind = "bytes"
             /\ StoredPlaintext(cacheMap'[k]) = Marshal(shadow'[k].val).b
             /\ LET g == GetOp(Cache', k, now)
                IN  g.found /\ g.resp = Response(Marshal(shadow'[k].val).b, now)]_vars

\* an Add has overwritten an entry that an earlier Add stored at an earlier time
C6_Witness ==
    /\ ret.op = "Add" /\ ret.err = "" /\ ret.existed
    /\ cacheMap[ret.key].insertionTime = now
    /\ now > 0
    /\ shadow[ret.key].val = IntValue(42)

\* C7: Remove is an unconditional, idempotent delete.  Remove(k) raises no
\* error, leaves k absent and every other key as it was, changes nothing when k
\* was absent, and a second Remove(k) changes nothing more; from then on Get(k)
\* reports not-found with a nil response, and only an Add(k) stores k again.
C7_RemoveIdempotent ==
    /\ [][\A k \in CacheKeys :
            (ret'.op = "Remove" /\ ret'.key = k)
            => /\ ret'.err = ""
               /\ ~Load(cacheMap', k)
               /\ \A j \in CacheKeys \ {k} :
                     /\ Load(cacheMap', j) = Load(cacheMap, j)
                     /\ Load(cacheMap, j) => cacheMap'[j] = cacheMap[j]
               /\ ~Load(cacheMap, k) => cacheMap' = cacheMap
               /\ RemoveOp(Cache', k) = cacheMap'
               /\ \A t \in now..MaxTime :
                     LET g == GetOp(Cache', k, t) IN ~g.found /\ g.resp = NilResponse]_vars
    /\ [][\A k \in CacheKeys :
            (~Load(cacheMap, k) /\ Load(cacheMap', k)) => (ret'.op = "Add" /\ ret'.key = k)]_vars

\* a Remove of a key that was not stored, while the other key was
C7_Witness ==
    /\ ret.op = "Remove" /\ ~ret.existed
    /\ DOMAIN cacheMap # {}

\* C8: Get on a key that is not in the store reports found = false with a nil
\* response and changes nothing in the store.
C8_GetAbsent ==
    [][\A k \in CacheKeys :
          (ret'.op = "Get" /\ ret'.key = k /\ ~Load(cacheMap, k))
          => ~ret'.found /\ ret'.resp = NilResponse /\ cacheMap' = cacheMap]_vars

\* a Get missed an absent key while the other key was stored
C8_Witness ==
    /\ ret.op = "Get" /\ ~ret.existed /\ ~ret.found
    /\ DOMAIN cacheMap # {}

\* C9: expiry resolution at Add.  A successful Add stores the per-call override
\* when it is > 0 and otherwise the cache-wide default of that moment; an entry
\* added with override E to a never-expiring cache is found by a Get at every
\* age <= E and not found at any age > E.
C9_ExpiryResolution ==
    [][\A k \in CacheKeys :
          (ret'.op = "Add" /\ ret'.key = k /\ ret'.err = "")
          => /\ cacheMap'[k].expiry = (IF ret'.exp > 0 THEN ret'.exp ELSE expiry)
             /\ (ret'.exp > 0 /\ expiry <= -1)
                => \A t \in now..(MaxTime + MaxDuration + 1) :
                      GetOp(Cache', k, t).found = (t - now <= ret'.exp)]_vars

\* an Add with an override has stored a finite expiry in a never-expiring cache
C9_Witness ==
    /\ ret.op = "Add" /\ ret.err = "" /\ ret.exp > 0
    /\ expiry = -1
    /\ cacheMap[ret.key].expiry = ret.exp

\* C10 as stated: in a never-expiring cache an entry added without override is
\* never removed by Get or by clean, and only Remove or an overwriting Add
\* changes it.
C10_Original ==
    [][\A k \in CacheKeys :
          (Load(cacheMap, k) /\ shadow[k].e = -1)
          => /\ ~Load(cacheMap', k) => (ret'.op = "Remove" /\ ret'.key = k)
             /\ (Load(cacheMap', k) /\ cacheMap'[k] # cacheMap[k])
                => (ret'.op = "Add" /\ ret'.key = k)]_vars

\* C10 (amended): NewCache gives the cache either a positive expiry or the
\* never-expiring one (-1); an Add without override under it stores the entry
\* as never-expiring; and such an entry is never removed by Get or by clean: it
\* leaves the store only by Remove, and changes only by an overwriting Add or an
\* Update, which replaces the value and keeps insertionTime and expiry.
C10_NeverExpires ==
    /\ [](ret.op = "NewCache" /\ ret.exp <= 0 => expiry = -1)
    /\ [][\A k \in CacheKeys :
            (ret'.op = "Add" /\ ret'.key = k /\ ret'.err = "" /\ ret'.exp <= 0 /\ expiry = -1)
            => shadow'[k].e = -1 /\ cacheMap'[k].expiry = -1]_vars
    /\ [][\A k \in CacheKeys :
            (Load(cacheMap, k) /\ shadow[k].e = -1)
            => /\ ~Load(cacheMap', k) => (ret'.op = "Remove" /\ ret'.key = k)
               /\ (Load(cacheMap', k) /\ cacheMap'[k] # cacheMap[k])
                  => /\ ret'.key = k
                     /\ ret'.op \in {"Add", "Update"}
                     /\ ret'.op = "Update"
                        => /\ cacheMap'[k].insertionTime = cacheMap[k].insertionTime
                           /\ cacheMap'[k].expiry = -1]_vars

\* clean has run over a never-expiring entry that is older than every finite
\* expiry, and the entry is still stored
C10_Witness ==
    /\ ret.op = "clean"
    /\ now = MaxTime
    /\ \E k \in DOMAIN cacheMap :
          /\ shadow[k].op = "stored"
          /\ cacheMap[k].expiry = -1
          /\ cacheMap[k].insertionTime = 0

\* C11: a runtime default expiry <= 0 means never expires.  An entry that an Add
\* without override stored under a cache-wide default <= 0 (UpdateTime can set
\* 0 and values below -1) is reported found by every later Get and is never
\* removed by clean.
C11_RuntimeDefaultNeverExpires ==
    /\ [][\A k \in CacheKeys :
            ( /\ ret'.op = "Get" /\ ret'.key = k
              /\ Load(cacheMap, k)
              /\ shadow[k].op = "stored"
              /\ shadow[k].e <= 0 )
            => ret'.found /\ Load(cacheMap', k)]_vars
    /\ [][\A k \in CacheKeys :
            (ret'.op = "clean" /\ Load(cacheMap, k) /\ shadow[k].e <= 0)
            => Load(cacheMap', k)]_vars

C14_FieldsOptional ==
    [][ret'.op = "UpdateTime" =>
          /\ (ret'.itv = 0 /\ ret'.exp # 0) => cleanInterval' = cleanInterval
          /\ (ret'.exp = 0 /\ ret'.itv # 0) => expiry' = expiry]_vars

\* C15: one sweep cycle is complete.  When a Range of clean has finished, every
\* entry that was stored when it started with a finite expiry (>= 0) and an age
\* beyond that expiry has been removed, whatever the order of the scan and
\* whatever other entries the store holds.
C15_SweepComplete ==
    [][ret'.op = "clean" =>
          \A k \in CacheKeys :
             ( /\ Load(cacheMap, k)
               /\ cacheMap[k].expiry >= 0
               /\ now - cacheMap[k].insertionTime > cacheMap[k].expiry )
             => ~Load(cacheMap', k)]_vars

\* C16: eviction without read traffic.  With clean scheduled fairly and no Get
\* and no Remove ever called, an entry with a finite expiry (>= 0) whose age is
\* beyond it is eventually out of the store (or replaced by a fresh Add), also
\* when the store holds live or never-expiring entries.  The runs held to it
\* are those in which clean keeps running Ranges and which the bounded clock
\* renders exactly: from some point on no stored entry is within a finite
\* expiry.
C16_EventuallyEvicted ==
    (([]<><<SweepStep>>_vars) /\ <>[]Settled)
    => \A k \in CacheKeys :
          ( /\ Load(cacheMap, k)
            /\ cacheMap[k].expiry >= 0
            /\ now - cacheMap[k].insertionTime > cacheMap[k].expiry )
          ~> ( \/ ~Load(cacheMap, k)
               \/ cacheMap[k].expiry < 0
               \/ now - cacheMap[k].insertionTime <= cacheMap[k].expiry )

\* C17: Add is atomic on failure.  An Add(k, v) that returns an error, from the
\* encode step or from the obfuscate step, leaves the store as it was: an entry
\* stored for k keeps its payload, insertionTime and expiry, and an absent k
\* stays absent.
C17_AddAtomicOnFailure ==
    [][\A k \in CacheKeys :
          (ret'.op = "Add" /\ ret'.key = k /\ ret'.err # "")
          => /\ cacheMap' = cacheMap
             /\ obfuscator' = obfuscator
             /\ ret'.err \in {"json: unsupported type", "rand: read failed"}]_vars

\* an Add failed in the obfuscate step on a key that holds an entry stored
\* earlier, and the entry is still there
C17_Witness ==
    /\ ret.op = "Add" /\ ret.err = "rand: read failed" /\ ret.existed
    /\ Load(cacheMap, ret.key)
    /\ shadow[ret.key].op = "stored"
    /\ cacheMap[ret.key].insertionTime < now

\* C18: crypto failures are fail-closed and self-healing.  In an obfuscated
\* cache a Get on a live entry whose stored payload was altered (one byte
\* changed, cut short, or sealed under another key) finds that it does not
\* deobfuscate, reports found = false with a nil response and removes the entry;
\* and every Get on a live entry returns a payload exactly when the stored bytes
\* deobfuscate, and then the deobfuscated bytes.
C18_FailClosed ==
    [][\A k \in CacheKeys :
          ( /\ ret'.op = "Get" /\ ret'.key = k
            /\ obfuscator # <<>>
            /\ Load(cacheMap, k)
            /\ cacheMap[k].value.kind = "bytes"
            /\ IsLive(Cache, cacheMap[k], now) )
          => LET d == Deobfuscate(obfuscator, cacheMap[k].value.b)
             IN  /\ shadow[k].op = "tampered" => d.err # ""
                 /\ IF d.err # ""
                    THEN ~ret'.found /\ ret'.resp = NilResponse /\ ~Load(cacheMap', k)
                    ELSE /\ ret'.found
                         /\ ret'.resp = Response(d.b, cacheMap[k].insertionTime)
                         /\ cacheMap' = cacheMap]_vars

\* a Get has removed a live entry whose payload had been altered
C18_Witness ==
    /\ ret.op = "Get" /\ ret.existed /\ ~ret.found /\ ret.resp = NilResponse
    /\ ~Load(cacheMap, ret.key)
    /\ expiry = -1
    /\ now > 0

\* C19: disjoint-key concurrency safety.  With one goroutine per key and no
\* entry expiring (the cache never expires and no Add overrides that), in every
\* interleaving a goroutine that has returned from a call holds the result the
\* same calls give it when it runs alone, and its key's entry is the one its
\* own calls leave; the process dies by a panic only if every goroutine would
\* have panicked alone; and a step of one goroutine never changes the entry of
\* another key.
C19_DisjointKeys ==
    /\ [](expiry = defaultExpiry =>
            \A t \in Threads :
               /\ (~crashed /\ threads[t].pc = "idle") =>
                      /\ threads[t].res = threads[t].want
                      /\ Load(cacheMap, t) = Load(threads[t].alone, t)
                      /\ Load(cacheMap, t) => cacheMap[t] = threads[t].alone[t]
               /\ crashed => threads[t].alonePanic)
    /\ [][\A t \in Threads :
             threads'[t] # threads[t] =>
                \A k \in CacheKeys \ {t} :
                   /\ Load(cacheMap', k) = Load(cacheMap, k)
                   /\ Load(cacheMap, k) => cacheMap'[k] = cacheMap[k]]_vars

\* C20: the coarse lock is never taken internally.  While a caller holds the
\* exclusive Lock or a read RLock, every Add, Update, Get and Remove can run
\* at once, and so can the Range of clean as soon as its sleep is over: none
\* of them waits for the lock to be released.
C20_LockNotTakenInternally ==
    (~crashed /\ (lock.w \/ lock.r > 0)) =>
       /\ \A key \in OneKey, value \in Values, rnd \in RandReads :
             /\ ENABLED Add(key, value, 0, rnd[1], rnd[2])
             /\ ENABLED Update(key, value, rnd[1], rnd[2])
       /\ \A key \in OneKey : ENABLED Get(key) /\ ENABLED Remove(key)
       /\ sweepSleep = 0 => ENABLED SweepStep

\* an Update has stored a value after a caller took the exclusive Lock and
\* before anyone released it
C20_Witness ==
    lock.w /\ ret.op = "Update" /\ ret.err = "" /\ Load(cacheMap, ret.key)

\* C23: Update treats an expired key as not found.  An Update(k, v) on a key
\* whose entry is still in the store but whose age exceeds its finite expiry
\* returns the not-found error and leaves the store as it is.
C23_UpdateExpiredNotFound ==
    [][\A k \in CacheKeys :
          ( /\ ret'.op = "Update" /\ ret'.key = k
            /\ Load(cacheMap, k)
            /\ cacheMap[k].expiry >= 0
            /\ now - cacheMap[k].insertionTime > cacheMap[k].expiry )
          => /\ ret'.err = "value doesn't exist in cache"
             /\ cacheMap' = cacheMap]_vars

\* C27: the Sweeper and Get agree on liveness.  A Range of clean removes an
\* entry only if a Get on it at the same instant reports not-found: it never
\* removes an entry that is within its expiry or that Get treats as never
\* expiring.
C27_SweepAgreesWithGet ==
    [][ret'.op = "clean" =>
          \A k \in DOMAIN cacheMap :
             ~Load(cacheMap', k) => ~GetOp(Cache, k, now).found]_vars

\* C29: Update is atomic on failure.  An Update(k, v) that fails in the encode
\* or the obfuscate step returns the error and leaves the stored entry of k
\* unchanged, so that a Get(k) after it gives what a Get(k) before it gave.
C29_UpdateAtomicOnFailure ==
    [][\A k \in CacheKeys :
          ( /\ ret'.op = "Update" /\ ret'.key = k
            /\ ret'.err \in {"json: unsupported type", "rand: read failed"} )
          => /\ cacheMap' = cacheMap
             /\ GetOp(Cache', k, now) = GetOp(Cache, k, now)]_vars

\* C28: the stored payload is always encoded bytes.  In every reachable state,
\* the intermediate states of a running Update or Add included, the value of
\* every entry in the store is a byte payload, and no Get aborts.
C28_StoredIsBytes ==
    /\ \A k \in DOMAIN cacheMap : cacheMap[k].value.kind = "bytes"
    /\ ~crashed

\* C30: lazy eviction never loses a fresh write.  When a Get that found its
\* entry expired comes to remove it and the store by then holds another,
\* live entry under the key, stored by an Add after the Get loaded the old
\* one, that entry stays in the store: the Get removes only the entry it
\* inspected.
C30_EvictionKeepsFreshWrite ==
    [][\A t \in Threads, k \in OneKey :
          ( /\ threads[t].pc = "GetRemove" /\ threads'[t].pc = "idle"
            /\ Load(cacheMap, k)
            /\ cacheMap[k] # threads[t].entry
            /\ IsLive(Cache, cacheMap[k], now) )
          => /\ Load(cacheMap', k)
             /\ cacheMap'[k] = cacheMap[k]]_vars

\* C21: the coarse lock makes a multi-step sequence atomic.  When every caller
\* wraps its operations in Lock and Unlock, the caller that holds the Lock
\* finds the store at each of its steps as its previous step left it (nobody
\* else, the clean goroutine included, added, changed or removed an entry),
\* and an Update that follows a Get which found the key under the same Lock
\* does not fail with not-found.
C21_LockedSequenceAtomic ==
    [][\A t \in Threads :
          (threads[t].pc = "Locked" /\ threads'[t] # threads[t])
          => /\ cacheMap = threads[t].alone
             /\ threads[t].res.found
                   => threads'[t].res.err # "value doesn't exist in cache"]_vars

\* C22: GetAllCacheInfo returns exactly the live entries.  Called with nothing
\* else running it returns a map whose keys are the keys whose entries are
\* live at the scan, each with its payload, deobfuscated when the cache is
\* obfuscated; the expired entries are gone from the store when it returns;
\* and it returns nil when no entry is live.
C22_GetAllLiveEntries ==
    [][ret'.op = "GetAllCacheInfo" =>
          LET live == {k \in DOMAIN cacheMap : IsLive(Cache, cacheMap[k], now)}
          IN  /\ ~crashed'
              /\ DOMAIN cacheMap' = live
              /\ \A k \in live : cacheMap'[k] = cacheMap[k]
              /\ IF live = {} THEN ret'.resp = NilMap
                 ELSE /\ ~ret'.resp.isNil
                      /\ DOMAIN ret'.resp.entries = live
                      /\ \A k \in live :
                            ret'.resp.entries[k] = StoredPlaintext(cacheMap[k])]_vars

\* C26: strict typed Get.  Get(key, target) returns the not-found error when
\* the key is absent, when its entry is expired and when its payload does not
\* open, and in the last two cases the entry is removed; when the entry is
\* live and its payload opens but does not decode into the target, it returns
\* the decode error and leaves the store as it is.
C26_TypedGet ==
    [][\A k \in OneKey :
          (ret'.op = "GetTyped" /\ ret'.key = k) =>
             IF ~Load(cacheMap, k)
             THEN ret'.err = "key not found in the cache" /\ cacheMap' = cacheMap
             ELSE IF ~IsLive(Cache, cacheMap[k], now)
             THEN ret'.err = "key not found in the cache" /\ ~Load(cacheMap', k)
             ELSE cacheMap[k].value.kind = "bytes" =>
                    LET d == Deobfuscate(obfuscator, cacheMap[k].value.b)
                        u == UnmarshalInto(d.b, ret'.target)
                    IN  /\ shadow[k].op = "tampered" => d.err # ""
                        /\ IF d.err # ""
                           THEN /\ ret'.err = "key not found in the cache"
                                /\ ~Load(cacheMap', k)
                           ELSE /\ cacheMap' = cacheMap
                                /\ ret'.err = u.err
                                /\ ret'.err # "key not found in the cache"
                                /\ ret'.target = "string" => ret'.err # ""]_vars

\* a typed Get has returned a decode error for an entry that is still stored
C26_Witness ==
    /\ ret.op = "GetTyped"
    /\ ret.err \notin {"", "key not found in the cache", "panic"}
    /\ Load(cacheMap, ret.key)

\* C24: the Sweeper can be stopped.  One of the Cache's operations disposes of
\* it: in a run where that operation is called again and again, there is a
\* point after which clean never completes another pass.
C24_SweeperCanBeStopped ==
    \E op \in CacheOps : []<>(ret.op = op) => <>[](ret.op # "clean")

\* C25: construction with obfuscation is fallible, not fatal.  NewCache never
\* leaves the process aborted: when the random source fails it returns an
\* error to its caller.
C25_ConstructionNotFatal == ret.op = "NewCache" => ~crashed

\* C31: Sweeper eviction never loses a fresh write.  When clean, having judged
\* the entry of a key expired, comes to remove it and the store by then holds
\* another entry under the key that is not evictable, stored by an Add after
\* the judgement, that entry stays in the store: clean removes only the entry
\* it judged.
C31_SweepKeepsFreshWrite ==
    [][\A k \in OneKey :
          ( /\ threads[Cleaner].pc = "CleanRemove" /\ threads'[Cleaner].pc = "idle"
            /\ Load(cacheMap, k)
            /\ cacheMap[k] # threads[Cleaner].entry
            /\ ~ShouldEvict(Cache, cacheMap[k], now) )
          => /\ Load(cacheMap', k)
             /\ cacheMap'[k] = cacheMap[k]]_vars

\* C32: Update never (re)creates a key.  When Update comes to its store step
\* and the key is absent from the store, removed or evicted after Update's
\* existence check, the key is absent after the step as well.
C32_UpdateNeverCreates ==
    [][\A t \in Callers, k \in OneKey :
          ( /\ threads[t].pc = "UpdateStore" /\ threads'[t].pc = "idle"
            /\ ~Load(cacheMap, k) )
          => ~Load(cacheMap', k)]_vars

\* C33: Update never rolls back a concurrent Add's metadata.  When Update
\* completes with its store step and no Add is under way, the entry stored
\* for the key keeps the insertionTime and the expiry it had before the step,
\* those of the Add that stored it after Update loaded the old entry: Update
\* changes only the payload of the entry currently stored.
C33_UpdateKeepsAddMetadata ==
    [][\A t \in Callers, k \in OneKey :
          ( /\ threads[t].pc = "UpdateStore" /\ threads'[t].pc = "idle"
            /\ \A a \in Threads \ Callers : threads[a].pc = "idle"
            /\ Load(cacheMap, k) )
          => /\ Load(cacheMap', k)
             /\ cacheMap'[k].insertionTime = cacheMap[k].insertionTime
             /\ cacheMap'[k].expiry = cacheMap[k].expiry]_vars

\* C34: reads do not extend lifetime.  A Get never changes an entry that stays
\* in the store, whatever its key; a Get that reports found leaves the whole
\* store as it is; and a Get on an entry that has an expiry and whose age
\* exceeds it reports not found, however many Gets came before.
C34_NoSlidingExpiration ==
    [][\A k \in CacheKeys :
          (ret'.op = "Get" /\ ret'.key = k) =>
             /\ \A j \in DOMAIN cacheMap' : Load(cacheMap, j) /\ cacheMap'[j] = cacheMap[j]
             /\ ret'.found => cacheMap' = cacheMap
             /\ ( /\ Load(cacheMap, k)
                  /\ cacheMap[k].expiry > defaultExpiry
                  /\ now - cacheMap[k].insertionTime > cacheMap[k].expiry )
                => ~ret'.found /\ ret'.resp = NilResponse]_vars

\* a Get has found an entry at the last instant of its lifetime, next to
\* another stored key
C34_Witness ==
    /\ ret.op = "Get" /\ ret.found
    /\ Load(cacheMap, ret.key)
    /\ cacheMap[ret.key].expiry > 0
    /\ now - cacheMap[ret.key].insertionTime = cacheMap[ret.key].expiry
    /\ \E j \in DOMAIN cacheMap : j # ret.key

\* C35: the Sweeper cycles forever.  clean is always either Idle or Sweeping and
\* the process is alive; every Sweeping phase terminates, also while a caller
\* adds and removes; an Idle clean whose sleep runs out within the time of the
\* model starts a new Sweeping phase, so that with a CleanInterval of zero it
\* is Sweeping again and again without end.
C35_SweeperCycles ==
    /\ [](~crashed /\ (SweeperIdle \/ SweeperSweeping))
    /\ (SweeperSweeping ~> SweeperIdle)
    /\ ((SweeperIdle /\ sweepSleep <= MaxTime - now) ~> SweeperSweeping)
    /\ [](cleanInterval <= 0 => []<>SweeperSweeping /\ []<>SweeperIdle)

\* clean is Idle and asleep again after a pass, with time left for the next
\* one, while a caller is in the middle of an Add
C35_Witness ==
    /\ SweeperIdle
    /\ cleanInterval > 0 /\ sweepSleep = cleanInterval
    /\ now > 0 /\ now < MaxTime
    /\ \E t \in Callers : threads[t].pc = "AddStore"

\* C36: Deobfuscate rejects short input, and opens what Obfuscate sealed.  On
\* every input shorter than the nonce it returns the malformed-ciphertext
\* error and no plaintext; on the output of Obfuscate(p) under the same
\* Obfuscator it returns p and no error.
C36_DeobfuscateShortAndRoundTrip ==
    ret.op = "Deobfuscate" =>
       /\ Len(ret.input) < NonceSize =>
             ret.err = "malformed ciphertext" /\ ret.b = << >>
       /\ ret.input = ret.sealed => ret.err = "" /\ ret.b = ret.plaintext

\* Deobfuscate has rejected the first NonceSize - 1 bytes of a sealed payload
C36_Witness ==
    /\ ret.op = "Deobfuscate"
    /\ Len(ret.input) = NonceSize - 1
    /\ ret.input = SubSeq(ret.sealed, 1, NonceSize - 1)
    /\ ret.err = "malformed ciphertext"
    /\ Len(ret.plaintext) = MaxPlain

====
